---------------------------- MODULE Spec2Model ----------------------------
(***************************************************************************)
(* Model of the browser request services of                                *)
(*   packages/core/src/browser/request/browser-request-service.ts          *)
(* (DefaultBrowserRequestService, XHRBrowserRequestService) and of the     *)
(* RequestContext helpers of common/request.ts.                            *)
(*                                                                         *)
(* JavaScript runs the code between two awaits without interruption, so    *)
(* one action is one such run: a call from the outside, the delivery of an *)
(* event, or the continuation of an await.                                 *)
(***************************************************************************)
EXTENDS Integers, Sequences, FiniteSets, TLC

VARIABLES
    ready,          \* preferenceService.ready: "pending", "resolved", "rejected"
    authorization,  \* XHRBrowserRequestService.authorization
    configureLog,   \* the configs given to backendRequestService.configure by the latest call
    lastEvent,      \* the preference-change event the latest call delivered (None: it was no event)
    handlerThrew,   \* whether the latest call was a run of the preference handler that threw
    configureArg,   \* the config the latest call gave to this.configure (None: it gave none)
    peerAuthorization, \* the proxyAuthorization forwarded last to the privileged peer
    pc,             \* where XHRBrowserRequestService.request stands
    options,        \* the caller's options object, as it is now
    callOptions,    \* the caller's options object, as it was when request was called
    cancelled,      \* whether the token given to request has signalled cancellation
    xhr,            \* the XMLHttpRequest of the native attempt
    nativePromise,  \* the promise xhrRequest returned
    peerCalls,      \* how often backendRequestService.request was called for this request
    peerOptions,    \* the options backendRequestService.request received
    peerReply,      \* what the privileged peer answered
    outcome,        \* the promise request returned to the caller
    nRequests,      \* requests made so far
    ctx,            \* RequestContext helpers: the context given
    op,             \* RequestContext helpers: the helper applied
    result,         \* RequestContext helpers: what it returned or threw
    headerLines,    \* getResponseHeaders: the lines of xhr.getAllResponseHeaders(), each with its line ending
    responseHeaders \* getResponseHeaders: what it returned (None: not called yet)

vars == << ready, authorization, configureLog, lastEvent, handlerThrew, configureArg,
           peerAuthorization, pc, options,
           callOptions, cancelled, xhr, nativePromise, peerCalls, peerOptions,
           peerReply, outcome, nRequests, ctx, op, result, headerLines, responseHeaders >>

configVars == << authorization, configureLog, lastEvent, handlerThrew, configureArg,
                 peerAuthorization >>
requestVars == << pc, options, callOptions, cancelled, xhr, nativePromise,
                  peerCalls, peerOptions, peerReply, outcome, nRequests >>
headerVars == << headerLines, responseHeaders >>
resultVars == << ctx, op, result, headerLines, responseHeaders >>

---------------------------------------------------------------------------
(* JavaScript values.  An optional value (T | undefined, or an absent     *)
(* property) is <<>> when undefined and <<v>> otherwise.                   *)

None == << >>
Some(v) == << v >>

\* JavaScript's truthiness of an optional string: undefined and '' are falsy.
TruthyStr(o) == o # None /\ o[1] # ""

\* a || b on optional strings.
OrStr(a, b) == IF TruthyStr(a) THEN a ELSE b

---------------------------------------------------------------------------
(* Bounds of the model.                                                    *)

\* Requests made one after the other.
MaxRequests == 1
\* Headers a caller puts in options.headers.
MaxHeaders == 2
\* Lines of a raw response-header block.
MaxLines == 2

---------------------------------------------------------------------------
(* RequestConfiguration and the preference-change handler.                 *)
(*                                                                         *)
(* A RequestConfiguration is a function from the fields it holds to their  *)
(* values; a field may be present with the value undefined.                *)

ProxyUrls == { None, Some("http://proxy:8080") }
ProxyAuthorizations == { None, Some(""), Some("Basic abc") }
StrictSSLs == { Some(TRUE), Some(FALSE) }

EmptyObject == [k \in {} |-> None]

\* The objects with no property or with the one property k, its value drawn from vs.
OptionalProperty(k, vs) == { EmptyObject } \cup { [x \in {k} |-> v] : v \in vs }

RequestConfigurations ==
    { a @@ b @@ c : a \in OptionalProperty("proxyUrl", ProxyUrls),
                    b \in OptionalProperty("proxyAuthorization", ProxyAuthorizations),
                    c \in OptionalProperty("strictSSL", StrictSSLs) }

\* The configurations of proxyAuthorization alone.
AuthorizationConfigurations ==
    { [k \in { "proxyAuthorization" } |-> v] : v \in ProxyAuthorizations }

\* A preference change: its newValue (oldValue is never read).
Change(v) == [newValue |-> v]

\* A change event maps the changed preference keys to their changes.  The key
\* "proxyAuthorization" is no preference of the request service; it is the key
\* the handler reads.
PreferenceChanges ==
    { a @@ b @@ c @@ d :
        a \in OptionalProperty("http.proxy", { Change(v) : v \in ProxyUrls }),
        b \in OptionalProperty("http.proxyAuthorization",
                               { Change(v) : v \in ProxyAuthorizations }),
        c \in OptionalProperty("http.proxyStrictSSL", { Change(v) : v \in StrictSSLs }),
        d \in OptionalProperty("proxyAuthorization", { Change(Some("Basic other")) }) }

\* XHRBrowserRequestService.configure, its effect on this.authorization.
ConfigureAuthorizationIgnoringKey(config, auth) ==
    IF "proxyAuthorization" \in DOMAIN config /\ config["proxyAuthorization"] # None
    THEN config["proxyAuthorization"] ELSE auth

ConfigureAuthorization(config, auth) ==
    IF "proxyAuthorization" \in DOMAIN config THEN config["proxyAuthorization"] ELSE auth

\* DefaultBrowserRequestService.configure: the config goes to the privileged peer as it is.
ForwardConfigurationWithoutAuthorization(config, log) ==
    Append(log, [k \in DOMAIN config \ { "proxyAuthorization" } |-> config[k]])

ForwardConfiguration(config, log) == Append(log, config)

\* The proxyAuthorization the privileged peer was given last, after it is given
\* the configs of log: a config without the field leaves it as it was.
RECURSIVE ForwardedAuthorization(_, _)
ForwardedAuthorization(log, before) ==
    IF log = << >> THEN before
    ELSE ForwardedAuthorization(Tail(log),
            IF "proxyAuthorization" \in DOMAIN Head(log) THEN Head(log)["proxyAuthorization"]
            ELSE before)

\* XHRBrowserRequestService.configure(config), called by a client.
Configure(config) ==
    /\ authorization' = ConfigureAuthorization(config, authorization)
    /\ configureLog' = ForwardConfiguration(config, << >>)
    /\ peerAuthorization' = ForwardedAuthorization(configureLog', peerAuthorization)
    /\ configureArg' = Some(config)
    /\ lastEvent' = None
    /\ handlerThrew' = FALSE
    /\ UNCHANGED << ready, requestVars, resultVars >>

\* The handler init gives to onPreferencesChanged, up to its call of configure:
\* whether it threw, and the config it had built.  e['proxyAuthorization'] is
\* undefined when the event has no such key, and reading its newValue throws.
HandlerConfig(e) ==
    LET c1 == IF "http.proxy" \in DOMAIN e
              THEN [k \in {"proxyUrl"} |-> e["http.proxy"].newValue] ELSE EmptyObject
        throws == "http.proxyAuthorization" \in DOMAIN e /\ "proxyAuthorization" \notin DOMAIN e
        c2 == IF "http.proxyAuthorization" \in DOMAIN e /\ ~throws
              THEN [k \in {"proxyAuthorization"} |-> e["proxyAuthorization"].newValue]
              ELSE EmptyObject
        c3 == IF "http.proxyStrictSSL" \in DOMAIN e
              THEN [k \in {"strictSSL"} |-> e["http.proxyStrictSSL"].newValue] ELSE EmptyObject
    IN  IF throws THEN [threw |-> TRUE, config |-> c1]
        ELSE [threw |-> FALSE, config |-> c1 @@ c2 @@ c3]

\* A preference-change event is delivered: the handler runs, and unless it threw
\* it calls this.configure, which is XHRBrowserRequestService.configure.
PreferencesChanged(e) ==
    LET h == HandlerConfig(e)
    IN  /\ lastEvent' = Some(e)
        /\ handlerThrew' = h.threw
        /\ IF h.threw
           THEN /\ configureLog' = << >>
                /\ configureArg' = None
                /\ UNCHANGED authorization
           ELSE /\ authorization' = ConfigureAuthorization(h.config, authorization)
                /\ configureLog' = ForwardConfiguration(h.config, << >>)
                /\ configureArg' = Some(h.config)
        /\ peerAuthorization' = ForwardedAuthorization(configureLog', peerAuthorization)
        /\ UNCHANGED << ready, requestVars, resultVars >>

---------------------------------------------------------------------------
(* RequestOptions and the native attempt (xhrRequest).                     *)

UnsafeHeaders == { "User-Agent", "Accept-Encoding", "Content-Length" }
HeaderNames == UnsafeHeaders \cup { "X-Custom", "Proxy-Authorization" }

\* What a caller gives a header as its value.
CallerValue(name) == "caller " \o name

\* Headers objects of callers: at most MaxHeaders of the header names.
CallerHeaders ==
    { [k \in S |-> CallerValue(k)] : S \in { T \in SUBSET HeaderNames : Cardinality(T) <= MaxHeaders } }

RequestOptions ==
    [ type : { None },
      url : { "http://example.org/api" },
      user : { None },
      password : { None },
      headers : { None } \cup { Some(h) : h \in CallerHeaders },
      timeout : { None, Some(5000) },
      data : { Some("payload") },
      proxyAuthorization : { None, Some("Basic opt") } ]

\* const authorization = this.authorization || options.proxyAuthorization
EffectiveAuthorizationOptionsFirst(auth, opts) == OrStr(opts.proxyAuthorization, auth)

EffectiveAuthorization(auth, opts) == OrStr(auth, opts.proxyAuthorization)

\* { ...(options.headers || {}), 'Proxy-Authorization': authorization }
SpreadWithProxyAuthorization(headers, auth) ==
    LET old == IF headers # None THEN headers[1] ELSE EmptyObject
    IN  [k \in DOMAIN old \cup { "Proxy-Authorization" } |->
            IF k = "Proxy-Authorization" THEN auth[1] ELSE old[k]]

\* The options object after the first lines of xhrRequest, which assign to
\* options.headers when there is an authorization.
InjectAuthorization(opts, auth) ==
    LET a == EffectiveAuthorization(auth, opts)
    IN  IF TruthyStr(a)
        THEN [opts EXCEPT !.headers = Some(SpreadWithProxyAuthorization(opts.headers, a))]
        ELSE opts

\* setRequestHeaders: the headers given to xhr.setRequestHeader.
SetRequestHeadersNoDenylist(opts) ==
    IF opts.headers # None THEN opts.headers[1] ELSE EmptyObject

SetRequestHeaders(opts) ==
    IF opts.headers # None
    THEN [k \in DOMAIN opts.headers[1] \ UnsafeHeaders |-> opts.headers[1][k]]
    ELSE EmptyObject

\* a || b on an optional string and a string.
OrDefault(o, d) == IF TruthyStr(o) THEN o[1] ELSE d

\* An optional number is truthy unless undefined or 0.
TruthyNum(o) == o # None /\ o[1] # 0

\* No XMLHttpRequest yet.
NoXhr ==
    [ state |-> "none", method |-> "", url |-> "", user |-> None, password |-> None,
      requestHeaders |-> EmptyObject, responseType |-> "", timeout |-> 0,
      body |-> None, cancelListener |-> FALSE ]

\* The XMLHttpRequest after xhr.open threw: nothing after it has run.
XhrOpenThrew == [ NoXhr EXCEPT !.state = "unsent" ]

\* The XMLHttpRequest after the promise executor has run to its end: opened,
\* headers set, arraybuffer asked for, timeout set, sent, cancel listener on.
XhrSent(opts) ==
    [ state |-> "sent",
      method |-> OrDefault(opts.type, "GET"),
      url |-> opts.url,
      user |-> opts.user,
      password |-> opts.password,
      requestHeaders |-> SetRequestHeaders(opts),
      responseType |-> "arraybuffer",
      timeout |-> IF TruthyNum(opts.timeout) THEN opts.timeout[1] ELSE 0,
      body |-> opts.data,
      cancelListener |-> TRUE ]

\* Promises: pending, resolved with a value or rejected with a reason.
\* A reason is an optional Error message: reject() gives the reason undefined.
Pending == [ state |-> "pending", value |-> None, reason |-> None ]
Resolved(v) == [ state |-> "resolved", value |-> Some(v), reason |-> None ]
Rejected(r) == [ state |-> "rejected", value |-> None, reason |-> r ]

\* resolve and reject of a promise act on a pending promise only.
SettleAgain(p, settled) == settled

SettleDroppingRejections(p, settled) ==
    IF p.state = "pending" /\ settled.state = "resolved" THEN settled ELSE p

Settle(p, settled) == IF p.state = "pending" THEN settled ELSE p

---------------------------------------------------------------------------
(* The response of the native attempt: getResponseHeaders and the          *)
(* RequestContext of onload.  A raw header block is a sequence of          *)
(* characters (strings of length 1).                                       *)

CR == "\r"
LF == "\n"
Whitespace == { " ", "\t", CR, LF }

UpperCase == << "A", "B", "C", "D", "E", "F", "G", "H", "I", "J", "K", "L", "M",
                "N", "O", "P", "Q", "R", "S", "T", "U", "V", "W", "X", "Y", "Z" >>
LowerCase == << "a", "b", "c", "d", "e", "f", "g", "h", "i", "j", "k", "l", "m",
                "n", "o", "p", "q", "r", "s", "t", "u", "v", "w", "x", "y", "z" >>

\* String.prototype.toLowerCase, one character.
ToLowerChar(c) ==
    IF \E i \in 1..Len(UpperCase) : UpperCase[i] = c
    THEN LowerCase[CHOOSE i \in 1..Len(UpperCase) : UpperCase[i] = c]
    ELSE c

ToLowerCase(s) == [i \in 1..Len(s) |-> ToLowerChar(s[i])]

\* String.prototype.trim.
RECURSIVE TrimStart(_)
TrimStart(s) == IF s # << >> /\ Head(s) \in Whitespace THEN TrimStart(Tail(s)) ELSE s

RECURSIVE TrimEnd(_)
TrimEnd(s) ==
    IF s # << >> /\ s[Len(s)] \in Whitespace THEN TrimEnd(SubSeq(s, 1, Len(s) - 1)) ELSE s

Trim(s) == TrimEnd(TrimStart(s))

\* line.indexOf(':'), counted from 0; -1 when there is none.
IndexOfLastColon(line) ==
    IF \E i \in 1..Len(line) : line[i] = ":"
    THEN (CHOOSE i \in 1..Len(line) : line[i] = ":" /\ \A j \in (i + 1)..Len(line) : line[j] # ":") - 1
    ELSE -1

IndexOfColon(line) ==
    IF \E i \in 1..Len(line) : line[i] = ":"
    THEN (CHOOSE i \in 1..Len(line) : line[i] = ":" /\ \A j \in 1..(i - 1) : line[j] # ":") - 1
    ELSE -1

\* line.substr(start, length) for start >= 0; a negative length gives ''.
Substr(line, start, length) ==
    IF length <= 0 THEN << >> ELSE SubSeq(line, start + 1, start + length)

\* line.substr(start) for start >= 0.
SubstrFrom(line, start) == SubSeq(line, start + 1, Len(line))

\* split(/\r\n|\n|\r/g): the lines from position i on, cur being the line begun.
RECURSIVE SplitLinesFrom(_, _, _)
SplitLinesFrom(s, i, cur) ==
    IF i > Len(s) THEN << cur >>
    ELSE IF s[i] = CR /\ i < Len(s) /\ s[i + 1] = LF
         THEN << cur >> \o SplitLinesFrom(s, i + 2, << >>)
    ELSE IF s[i] \in { CR, LF }
         THEN << cur >> \o SplitLinesFrom(s, i + 1, << >>)
    ELSE SplitLinesFrom(s, i + 1, Append(cur, s[i]))

SplitLines(s) == SplitLinesFrom(s, 1, << >>)

\* The characters of s as one string.
RECURSIVE Text(_)
Text(s) == IF s = << >> THEN "" ELSE Head(s) \o Text(Tail(s))

HeaderNameOf(line) == Text(ToLowerCase(Trim(Substr(line, 0, IndexOfColon(line)))))
HeaderValueOf(line) == Text(Trim(SubstrFrom(line, IndexOfColon(line) + 1)))

\* The loop of getResponseHeaders over the lines from the n-th on, headers
\* being the object built so far.
RECURSIVE ResponseHeadersFrom(_, _, _)
ResponseHeadersFrom(lines, n, headers) ==
    IF n > Len(lines) THEN headers
    ELSE IF lines[n] = << >> THEN ResponseHeadersFrom(lines, n + 1, headers)
    ELSE ResponseHeadersFrom(lines, n + 1,
            [k \in DOMAIN headers \cup { HeaderNameOf(lines[n]) } |->
                IF k = HeaderNameOf(lines[n]) THEN HeaderValueOf(lines[n]) ELSE headers[k]])

\* getResponseHeaders(xhr), raw being xhr.getAllResponseHeaders().
GetResponseHeaders(raw) == ResponseHeadersFrom(SplitLines(raw), 1, EmptyObject)

\* "Content-Type: text/plain\r\nX-Foo: Bar\r\n"
RawHeadersExample ==
    << "C", "o", "n", "t", "e", "n", "t", "-", "T", "y", "p", "e", ":", " ",
       "t", "e", "x", "t", "/", "p", "l", "a", "i", "n", CR, LF,
       "X", "-", "F", "o", "o", ":", " ", "B", "a", "r", CR, LF >>

\* BinaryBuffer.wrap(bytes): a BinaryBuffer holds its bytes in .buffer.
Wrap(bytes) == [ buffer |-> bytes ]

\* new Uint8Array(...) and Uint8Array.from(...): each number modulo 256.
Uint8Array(numbers) == [i \in 1..Len(numbers) |-> numbers[i] % 256]

\* The RequestContext onload resolves with.
NativeContext(status, raw, response) ==
    [ res |-> [ statusCode |-> Some(status), headers |-> GetResponseHeaders(raw) ],
      buffer |-> Wrap(Uint8Array(response)) ]

---------------------------------------------------------------------------
(* XHRBrowserRequestService.request and DefaultBrowserRequestService.request *)

NativeStatuses == { 200, 404, 405 }
NativeResponses == { << 104, 105 >> }
StatusTexts == { "", "Bad Gateway" }

\* What the privileged peer sends back: the buffer as it crosses the boundary,
\* { data: number[] } in place of the bytes.
PeerContexts ==
    { [ res |-> [ statusCode |-> Some(st), headers |-> [k \in { "via" } |-> "peer"] ],
        buffer |-> [ buffer |-> [ data |-> d ] ] ] :
      st \in { 200, 502 }, d \in { << 112, 101, 101, 114 >> } }
PeerErrors == { Some("peer failed") }

\* transformBackendResponse: the buffer made a BinaryBuffer over bytes again.
TransformBackendResponse(context) ==
    [ context EXCEPT !.buffer = Wrap(Uint8Array(context.buffer.buffer.data)) ]

\* The reason of the rejection of preferenceService.ready, when it rejects.
ReadyError == Some("preferences failed")

\* request(options, token) is called: xhrRequest runs to the end of its promise
\* executor, and request awaits the promise.  xhr.open may throw (openThrows),
\* which rejects the promise and ends the executor.
Request(opts, openThrows) ==
    /\ pc \in { "idle", "settled" }
    /\ nRequests < MaxRequests
    /\ nRequests' = nRequests + 1
    /\ callOptions' = Some(opts)
    /\ options' = Some(InjectAuthorization(opts, authorization))
    /\ cancelled' = FALSE
    /\ IF openThrows
       THEN /\ xhr' = XhrOpenThrew
            /\ nativePromise' = Rejected(Some("open failed"))
       ELSE /\ xhr' = XhrSent(InjectAuthorization(opts, authorization))
            /\ nativePromise' = Pending
    /\ peerCalls' = 0
    /\ peerOptions' = None
    /\ peerReply' = Pending
    /\ outcome' = Pending
    /\ pc' = "awaitNative"
    /\ UNCHANGED << ready, configVars, resultVars >>

\* xhr.onload
XhrLoad(status, raw, response) ==
    /\ xhr.state = "sent"
    /\ xhr' = [ xhr EXCEPT !.state = "done" ]
    /\ nativePromise' = Settle(nativePromise, Resolved(NativeContext(status, raw, response)))
    /\ UNCHANGED << ready, configVars, pc, options, callOptions, cancelled,
                    peerCalls, peerOptions, peerReply, outcome, nRequests, resultVars >>

\* xhr.onerror
XhrError(statusText) ==
    /\ xhr.state = "sent"
    /\ xhr' = [ xhr EXCEPT !.state = "done" ]
    /\ nativePromise' = Settle(nativePromise,
            Rejected(Some(IF statusText # "" THEN "XHR failed: " \o statusText ELSE "XHR failed")))
    /\ UNCHANGED << ready, configVars, pc, options, callOptions, cancelled,
                    peerCalls, peerOptions, peerReply, outcome, nRequests, resultVars >>

\* xhr.ontimeout: the primitive times out only when xhr.timeout is not 0.
XhrTimeout ==
    /\ xhr.state = "sent"
    /\ xhr.timeout # 0
    /\ xhr' = [ xhr EXCEPT !.state = "done" ]
    /\ nativePromise' = Settle(nativePromise,
            Rejected(Some("XHR timeout: " \o ToString(options[1].timeout[1]) \o "ms")))
    /\ UNCHANGED << ready, configVars, pc, options, callOptions, cancelled,
                    peerCalls, peerOptions, peerReply, outcome, nRequests, resultVars >>

\* xhr.abort(): a request in flight is aborted, and no event of it follows.
AbortNothing(x) == x

Abort(x) == IF x.state = "sent" THEN [ x EXCEPT !.state = "aborted" ] ELSE x

\* The token given to request signals cancellation (CancellationToken.None is
\* a token that never does).  The listener of xhrRequest, when it is there,
\* aborts the XMLHttpRequest and rejects the promise.
CancelRejectingRequest ==
    /\ ~cancelled
    /\ pc # "idle"
    /\ cancelled' = TRUE
    /\ IF xhr.cancelListener
       THEN /\ xhr' = Abort(xhr)
            /\ nativePromise' = Settle(nativePromise, Rejected(None))
       ELSE UNCHANGED << xhr, nativePromise >>
    /\ IF pc \in { "awaitReady", "awaitBackend" }
       THEN pc' = "settled" /\ outcome' = Rejected(None)
       ELSE UNCHANGED << pc, outcome >>
    /\ UNCHANGED << ready, configVars, options, callOptions,
                    peerCalls, peerOptions, peerReply, nRequests, resultVars >>

Cancel ==
    /\ ~cancelled
    /\ pc # "idle"
    /\ cancelled' = TRUE
    /\ IF xhr.cancelListener
       THEN /\ xhr' = Abort(xhr)
            /\ nativePromise' = Settle(nativePromise, Rejected(None))
       ELSE UNCHANGED << xhr, nativePromise >>
    /\ UNCHANGED << ready, configVars, pc, options, callOptions,
                    peerCalls, peerOptions, peerReply, outcome, nRequests, resultVars >>

\* if (xhrResult.res.statusCode === 405)
FallsBackOnEveryError(p) ==
    \/ p.state = "rejected"
    \/ p.state = "resolved" /\ p.value[1].res.statusCode[1] >= 400

FallsBack(p) ==
    \/ p.state = "rejected"
    \/ p.state = "resolved" /\ p.value[1].res.statusCode = Some(405)

\* request goes on after await this.xhrRequest(...): it returns the native
\* result, or calls super.request(options), which awaits preferenceService.ready.
ResumeNativeRethrowing ==
    /\ pc = "awaitNative"
    /\ nativePromise.state # "pending"
    /\ IF nativePromise.state = "rejected"
       THEN /\ pc' = "settled"
            /\ outcome' = Rejected(nativePromise.reason)
       ELSE IF FallsBack(nativePromise)
       THEN /\ pc' = "awaitReady"
            /\ UNCHANGED outcome
       ELSE /\ pc' = "settled"
            /\ outcome' = Resolved(nativePromise.value[1])
    /\ UNCHANGED << ready, configVars, options, callOptions, cancelled, xhr,
                    nativePromise, peerCalls, peerOptions, peerReply, nRequests, resultVars >>

ResumeNative ==
    /\ pc = "awaitNative"
    /\ nativePromise.state # "pending"
    /\ IF FallsBack(nativePromise)
       THEN /\ pc' = "awaitReady"
            /\ UNCHANGED outcome
       ELSE /\ pc' = "settled"
            /\ outcome' = Resolved(nativePromise.value[1])
    /\ UNCHANGED << ready, configVars, options, callOptions, cancelled, xhr,
                    nativePromise, peerCalls, peerOptions, peerReply, nRequests, resultVars >>

\* super.request goes on after await this.preferenceService.ready: it calls
\* backendRequestService.request(options), or throws what ready rejected with.
ResumeReady ==
    /\ pc = "awaitReady"
    /\ ready # "pending"
    /\ IF ready = "resolved"
       THEN /\ pc' = "awaitBackend"
            /\ peerCalls' = peerCalls + 1
            /\ peerOptions' = options
            /\ UNCHANGED outcome
       ELSE /\ pc' = "settled"
            /\ outcome' = Rejected(ReadyError)
            /\ UNCHANGED << peerCalls, peerOptions >>
    /\ UNCHANGED << ready, configVars, options, callOptions, cancelled, xhr,
                    nativePromise, peerReply, nRequests, resultVars >>

\* The privileged peer answers with a context: super.request transforms it and
\* returns it, and so does request.
PeerResolves(context) ==
    /\ pc = "awaitBackend"
    /\ peerReply' = Resolved(context)
    /\ outcome' = Resolved(TransformBackendResponse(context))
    /\ pc' = "settled"
    /\ UNCHANGED << ready, configVars, options, callOptions, cancelled, xhr,
                    nativePromise, peerCalls, peerOptions, nRequests, resultVars >>

\* The privileged peer fails: the rejection passes through super.request and request.
PeerRejectsRetrying(reason) ==
    /\ pc = "awaitBackend"
    /\ peerReply' = Rejected(reason)
    /\ IF peerCalls < 2
       THEN pc' = "awaitReady" /\ UNCHANGED outcome
       ELSE pc' = "settled" /\ outcome' = Rejected(reason)
    /\ UNCHANGED << ready, configVars, options, callOptions, cancelled, xhr,
                    nativePromise, peerCalls, peerOptions, nRequests, resultVars >>

PeerRejects(reason) ==
    /\ pc = "awaitBackend"
    /\ peerReply' = Rejected(reason)
    /\ outcome' = Rejected(reason)
    /\ pc' = "settled"
    /\ UNCHANGED << ready, configVars, options, callOptions, cancelled, xhr,
                    nativePromise, peerCalls, peerOptions, nRequests, resultVars >>

\* preferenceService.ready resolves, or rejects.
PreferencesReady ==
    /\ ready = "pending"
    /\ ready' = "resolved"
    /\ UNCHANGED << configVars, requestVars, resultVars >>

PreferencesFail ==
    /\ ready = "pending"
    /\ ready' = "rejected"
    /\ UNCHANGED << configVars, requestVars, resultVars >>

---------------------------------------------------------------------------
(* The state after construction, and the specification of the requests.    *)

NoContext == [ res |-> [ statusCode |-> None, headers |-> EmptyObject ], buffer |-> Wrap(<< >>) ]

InitService ==
    /\ ready = "pending"
    /\ authorization = None
    /\ configureLog = << >>
    /\ lastEvent = None
    /\ handlerThrew = FALSE
    /\ configureArg = None
    /\ peerAuthorization = None
    /\ pc = "idle"
    /\ options = None
    /\ callOptions = None
    /\ cancelled = FALSE
    /\ xhr = NoXhr
    /\ nativePromise = Pending
    /\ peerCalls = 0
    /\ peerOptions = None
    /\ peerReply = Pending
    /\ outcome = Pending

Init ==
    /\ InitService
    /\ nRequests = 0
    /\ ctx = NoContext
    /\ op = "none"
    /\ result = None
    /\ headerLines = << >>
    /\ responseHeaders = None

Next ==
    \/ \E config \in AuthorizationConfigurations : Configure(config)
    \/ \E opts \in RequestOptions, openThrows \in BOOLEAN : Request(opts, openThrows)
    \/ \E status \in NativeStatuses, response \in NativeResponses :
          XhrLoad(status, RawHeadersExample, response)
    \/ \E statusText \in StatusTexts : XhrError(statusText)
    \/ XhrTimeout
    \/ Cancel
    \/ ResumeNative
    \/ ResumeReady
    \/ \E context \in PeerContexts : PeerResolves(context)
    \/ \E reason \in PeerErrors : PeerRejects(reason)
    \/ PreferencesReady
    \/ PreferencesFail

Spec == Init /\ [][Next]_vars

---------------------------------------------------------------------------
(* The requests under the scheduling the runtime guarantees: a continuation *)
(* of an await runs once its promise has settled, an XMLHttpRequest sent    *)
(* with a timeout fires its timeout event unless it ends before, readiness  *)
(* settles and the privileged peer answers.  Nothing makes an               *)
(* XMLHttpRequest without timeout load or fail, and nothing makes the       *)
(* caller cancel.                                                           *)

LiveRequestOptions ==
    { o \in RequestOptions : o.headers = None /\ o.proxyAuthorization = None }

LiveConfigurations == { c \in AuthorizationConfigurations : c["proxyAuthorization"] # None }

NextLive ==
    \/ \E config \in LiveConfigurations : Configure(config)
    \/ \E opts \in LiveRequestOptions, openThrows \in BOOLEAN : Request(opts, openThrows)
    \/ \E status \in NativeStatuses, response \in NativeResponses :
          XhrLoad(status, RawHeadersExample, response)
    \/ \E statusText \in StatusTexts : XhrError(statusText)
    \/ XhrTimeout
    \/ Cancel
    \/ ResumeNative
    \/ ResumeReady
    \/ \E context \in PeerContexts : PeerResolves(context)
    \/ \E reason \in PeerErrors : PeerRejects(reason)
    \/ PreferencesReady
    \/ PreferencesFail

PeerAnswers ==
    \/ \E context \in PeerContexts : PeerResolves(context)
    \/ \E reason \in PeerErrors : PeerRejects(reason)

Fairness ==
    /\ WF_vars(ResumeNative)
    /\ WF_vars(ResumeReady)
    /\ WF_vars(XhrTimeout)
    /\ WF_vars(PreferencesReady \/ PreferencesFail)
    /\ WF_vars(PeerAnswers)

SpecLive == Init /\ [][NextLive]_vars /\ Fairness

---------------------------------------------------------------------------
(* The preference handler and configure on their own.                      *)

NextPrefs ==
    \/ \E config \in RequestConfigurations : Configure(config)
    \/ \E e \in PreferenceChanges : PreferencesChanged(e)

SpecPrefs == Init /\ [][NextPrefs]_vars

---------------------------------------------------------------------------
(* RequestContext.isSuccess, asText and asJson.                            *)
(*                                                                         *)
(* The value of a JavaScript expression over numbers, booleans and         *)
(* undefined, with its type.                                               *)

JsUndefined == [ type |-> "undefined", number |-> 0, boolean |-> FALSE ]
JsNumber(n) == [ type |-> "number", number |-> n, boolean |-> FALSE ]
JsBoolean(b) == [ type |-> "boolean", number |-> 0, boolean |-> b ]

\* statusCode?: number
JsOptionalNumber(o) == IF o = None THEN JsUndefined ELSE JsNumber(o[1])

Truthy(v) ==
    CASE v.type = "undefined" -> FALSE
      [] v.type = "number" -> v.number # 0
      [] v.type = "boolean" -> v.boolean

\* a && b and a || b give one of their operands.
JsAnd(a, b) == IF Truthy(a) THEN b ELSE a
JsOr(a, b) == IF Truthy(a) THEN a ELSE b

\* v >= n, v < n and v === n for a number n; a comparison with undefined is false.
JsAtLeast(v, n) == JsBoolean(v.type = "number" /\ v.number >= n)
JsLess(v, n) == JsBoolean(v.type = "number" /\ v.number < n)
JsStrictEquals(v, n) == JsBoolean(v.type = "number" /\ v.number = n)

\* isSuccess(context)
IsSuccessWithoutLegacyStatus(context) ==
    LET s == JsOptionalNumber(context.res.statusCode)
    IN  JsAnd(JsAnd(s, JsAtLeast(s, 200)), JsLess(s, 300))

IsSuccess(context) ==
    LET s == JsOptionalNumber(context.res.statusCode)
    IN  JsOr(JsAnd(JsAnd(s, JsAtLeast(s, 200)), JsLess(s, 300)), JsStrictEquals(s, 1223))

\* hasNoContent(context)
HasNoContent(context) == context.res.statusCode = Some(204)

\* The printable ASCII characters of the codes 32 to 95, and 97 to 126.
AsciiTo95 ==
    << " ", "!", "\"", "#", "$", "%", "&", "'", "(", ")", "*", "+", ",", "-", ".", "/",
       "0", "1", "2", "3", "4", "5", "6", "7", "8", "9", ":", ";", "<", "=", ">", "?",
       "@", "A", "B", "C", "D", "E", "F", "G", "H", "I", "J", "K", "L", "M", "N", "O",
       "P", "Q", "R", "S", "T", "U", "V", "W", "X", "Y", "Z", "[", "\\", "]", "^", "_" >>
AsciiFrom97 ==
    << "a", "b", "c", "d", "e", "f", "g", "h", "i", "j", "k", "l", "m", "n", "o",
       "p", "q", "r", "s", "t", "u", "v", "w", "x", "y", "z", "{", "|", "}", "~" >>

FromCharCode(b) == IF b <= 95 THEN AsciiTo95[b - 31] ELSE AsciiFrom97[b - 96]

\* context.buffer.toString(): the bytes decoded as text (the bytes here are ASCII).
BufferToString(buffer) ==
    Text([i \in 1..Len(buffer.buffer) |-> FromCharCode(buffer.buffer[i])])

\* 'Server returned ' + context.res.statusCode
ServerReturned(context) ==
    "Server returned " \o
        (IF context.res.statusCode = None THEN "undefined" ELSE ToString(context.res.statusCode[1]))

\* What a helper did: returned a value, or threw an Error with a message.
Returned(v) == [ threw |-> FALSE, value |-> Some(v), message |-> "" ]
Threw(m) == [ threw |-> TRUE, value |-> None, message |-> m ]

\* JSON.parse on the texts of the model: the text of a JSON value parses to the
\* value, any other text makes JSON.parse throw a SyntaxError.
JsonTexts == { "{\"a\":1}" }
JsonParse(str) ==
    IF str \in JsonTexts THEN Returned([ a |-> 1 ])
    ELSE IF str = "" THEN Threw("Unexpected end of JSON input")
    ELSE Threw("Unexpected token in JSON at position 0")

\* asText(context)
AsText(context) ==
    IF ~Truthy(IsSuccess(context)) THEN Threw(ServerReturned(context))
    ELSE IF HasNoContent(context) THEN Returned("")
    ELSE Returned(BufferToString(context.buffer))

\* asJson(context): err.message += ':\n' + str when JSON.parse throws.
AsJsonWithNoContent(context) ==
    IF ~Truthy(IsSuccess(context)) THEN Threw(ServerReturned(context))
    ELSE IF HasNoContent(context) THEN Returned("")
    ELSE LET str == BufferToString(context.buffer)
             parsed == JsonParse(str)
         IN  IF parsed.threw THEN Threw(parsed.message \o ":\n" \o str) ELSE parsed

AsJson(context) ==
    IF ~Truthy(IsSuccess(context)) THEN Threw(ServerReturned(context))
    ELSE LET str == BufferToString(context.buffer)
             parsed == JsonParse(str)
         IN  IF parsed.threw THEN Threw(parsed.message \o ":\n" \o str) ELSE parsed

\* The contexts the helpers are applied to.
HelperStatuses == { None, Some(0), Some(199), Some(200), Some(204), Some(299), Some(300),
                    Some(404), Some(1223) }
\* '', '{"a":1}', 'not json', 'hi'
HelperBodies == { << >>, << 123, 34, 97, 34, 58, 49, 125 >>,
                  << 110, 111, 116, 32, 106, 115, 111, 110 >>, << 104, 105 >> }
HelperContexts ==
    { [ res |-> [ statusCode |-> st, headers |-> EmptyObject ], buffer |-> Wrap(b) ] :
      st \in HelperStatuses, b \in HelperBodies }

ApplyIsSuccess ==
    /\ op = "none"
    /\ op' = "isSuccess"
    /\ result' = Some(IsSuccess(ctx))
    /\ UNCHANGED << ready, configVars, requestVars, ctx, headerVars >>

ApplyAsText ==
    /\ op = "none"
    /\ op' = "asText"
    /\ result' = Some(AsText(ctx))
    /\ UNCHANGED << ready, configVars, requestVars, ctx, headerVars >>

ApplyAsJson ==
    /\ op = "none"
    /\ op' = "asJson"
    /\ result' = Some(AsJson(ctx))
    /\ UNCHANGED << ready, configVars, requestVars, ctx, headerVars >>

InitResult ==
    /\ InitService
    /\ nRequests = 0
    /\ ctx \in HelperContexts
    /\ op = "none"
    /\ result = None
    /\ headerLines = << >>
    /\ responseHeaders = None

NextResult == ApplyIsSuccess \/ ApplyAsText \/ ApplyAsJson

SpecResult == InitResult /\ [][NextResult]_vars

---------------------------------------------------------------------------
(* getResponseHeaders on its own: raw header blocks made of a few lines,    *)
(* each ended by one of the three line endings.                            *)

\* "Content-Type: text/plain", "X-Foo: Bar", " X-Foo :  a:b ", "" and "x-bar:"
HeaderLineTexts ==
    { << "C", "o", "n", "t", "e", "n", "t", "-", "T", "y", "p", "e", ":", " ", "t", "e", "x", "t", "/", "p", "l", "a", "i", "n" >>,
      << "X", "-", "F", "o", "o", ":", " ", "B", "a", "r" >>,
      << " ", "X", "-", "F", "o", "o", " ", ":", " ", " ", "a", ":", "b", " " >>,
      << >>,
      << "x", "-", "b", "a", "r", ":" >> }
LineEndings == { << CR, LF >>, << LF >>, << CR >> }

HeaderLines == [ text : HeaderLineTexts, ending : LineEndings ]

RECURSIVE SeqsUpTo(_, _)
SeqsUpTo(S, n) ==
    IF n = 0 THEN { << >> }
    ELSE SeqsUpTo(S, n - 1) \cup
         { Append(q, x) : q \in { r \in SeqsUpTo(S, n - 1) : Len(r) = n - 1 }, x \in S }

\* xhr.getAllResponseHeaders(): the lines, each followed by its line ending.
RECURSIVE RawHeaders(_)
RawHeaders(lines) ==
    IF lines = << >> THEN << >>
    ELSE Head(lines).text \o Head(lines).ending \o RawHeaders(Tail(lines))

GetAllResponseHeaders ==
    /\ responseHeaders = None
    /\ responseHeaders' = Some(GetResponseHeaders(RawHeaders(headerLines)))
    /\ UNCHANGED << ready, configVars, requestVars, ctx, op, result, headerLines >>

InitHeaders ==
    /\ InitService
    /\ nRequests = 0
    /\ ctx = NoContext
    /\ op = "none"
    /\ result = None
    /\ headerLines \in SeqsUpTo(HeaderLines, MaxLines)
    /\ responseHeaders = None

NextHeaders == GetAllResponseHeaders

SpecHeaders == InitHeaders /\ [][NextHeaders]_vars

---------------------------------------------------------------------------
(* Properties.                                                             *)

\* The headers of an options object ({} when it has none).
HeadersOf(opts) == IF opts.headers = None THEN EmptyObject ELSE opts.headers[1]

\* The native attempt has been sent.
Sent == xhr.state \in { "sent", "done", "aborted" }

\* The outcome of request is the outcome of the delegating path.
OutcomeIsDelegates ==
    /\ outcome.state = "resolved" =>
          /\ peerReply.state = "resolved"
          /\ outcome.value[1] = [ peerReply.value[1] EXCEPT
                                    !.buffer = Wrap(peerReply.value[1].buffer.buffer.data) ]
    /\ outcome.state = "rejected" =>
          \/ ready = "rejected" /\ peerCalls = 0 /\ outcome.reason = ReadyError
          \/ peerReply.state = "rejected" /\ outcome.reason = peerReply.reason

\* C1: when the native attempt completes with status 405, the privileged peer
\* is given the options as the caller passed them (no header added), and what
\* request returns is the delegate's result.
C1_Status405DelegatesOriginalOptions ==
    (nativePromise.state = "resolved" /\ nativePromise.value[1].res.statusCode = Some(405)) =>
        /\ peerCalls > 0 => peerOptions = callOptions
        /\ pc = "settled" => OutcomeIsDelegates

\* C2: when the native attempt rejects (error, timeout, cancellation), the
\* privileged peer is given the options as the caller passed them, and the
\* outcome of request is the outcome of the delegating path, never the native error.
C2_RejectionDelegatesOriginalOptions ==
    nativePromise.state = "rejected" =>
        /\ peerCalls > 0 => peerOptions = callOptions
        /\ pc = "settled" => OutcomeIsDelegates

\* C3: when the native attempt completes with a status other than 405, request
\* returns the native context as it is, does not reject, and the privileged
\* peer is never called.
C3_OtherStatusReturnsNative ==
    (nativePromise.state = "resolved" /\ nativePromise.value[1].res.statusCode # Some(405)) =>
        /\ peerCalls = 0
        /\ pc \in { "awaitNative", "settled" }
        /\ outcome.state # "rejected"
        /\ pc = "settled" => outcome = Resolved(nativePromise.value[1])

C3_Witness ==
    /\ pc = "settled"
    /\ nativePromise.state = "resolved"
    /\ nativePromise.value[1].res.statusCode = Some(404)
    /\ outcome.state = "resolved"
    /\ outcome.value[1].res.statusCode = Some(404)

\* C4: a cancellation signalled while the native attempt is in flight aborts
\* the native call and rejects the pending promise of the attempt in the same
\* step, when request has neither returned nor called the privileged peer; an
\* aborted attempt never resolves.
C4_CancelInFlightRejectsFirst ==
    /\ [][ (xhr.state = "sent" /\ ~cancelled /\ cancelled') =>
              /\ nativePromise.state = "pending"
              /\ xhr'.state = "aborted"
              /\ nativePromise' = Rejected(None)
              /\ outcome'.state = "pending"
              /\ peerCalls' = 0 ]_vars
    /\ [](xhr.state = "aborted" => nativePromise = Rejected(None))

C4_Witness ==
    /\ cancelled
    /\ xhr.state = "aborted"
    /\ nativePromise = Rejected(None)
    /\ outcome.state = "pending"
    /\ pc = "awaitNative"

\* A step that calls request and sends the native attempt.
SendsNative == nRequests' = nRequests + 1 /\ xhr'.state = "sent"

\* The headers of the caller that are neither unsafe nor Proxy-Authorization
\* are on the XMLHttpRequest with the caller's values.
CallerHeadersSent(opts, x) ==
    \A k \in DOMAIN HeadersOf(opts) \ (UnsafeHeaders \cup { "Proxy-Authorization" }) :
        k \in DOMAIN x.requestHeaders /\ x.requestHeaders[k] = HeadersOf(opts)[k]

\* C5 as stated: the effective authorization of a native attempt is the value
\* in the cache whenever configure has put one there, options.proxyAuthorization
\* otherwise; the attempt is sent with it as Proxy-Authorization, and a request
\* whose options carry another proxyAuthorization is still sent with the cached one.
C5_CachedValueTakesPrecedence ==
    [][ SendsNative =>
          LET eff == IF authorization # None THEN authorization
                     ELSE callOptions'[1].proxyAuthorization
          IN  /\ (eff # None /\ eff # Some("")) =>
                    /\ "Proxy-Authorization" \in DOMAIN xhr'.requestHeaders
                    /\ xhr'.requestHeaders["Proxy-Authorization"] = eff[1]
                    /\ CallerHeadersSent(callOptions'[1], xhr')
              /\ (/\ authorization # None
                  /\ "Proxy-Authorization" \notin DOMAIN HeadersOf(callOptions'[1])
                  /\ "Proxy-Authorization" \in DOMAIN xhr'.requestHeaders) =>
                    xhr'.requestHeaders["Proxy-Authorization"] = authorization[1] ]_vars

\* C5, amended: the effective authorization of a native attempt is the value
\* in the cache when that is a non-empty string, options.proxyAuthorization
\* otherwise; when it is a non-empty string the attempt is sent with it as
\* Proxy-Authorization, beside the caller's other headers.
C5_NonEmptyCachedValueTakesPrecedence ==
    [][ SendsNative =>
          LET eff == IF authorization # None /\ authorization # Some("") THEN authorization
                     ELSE callOptions'[1].proxyAuthorization
          IN  (eff # None /\ eff # Some("")) =>
                /\ "Proxy-Authorization" \in DOMAIN xhr'.requestHeaders
                /\ xhr'.requestHeaders["Proxy-Authorization"] = eff[1]
                /\ CallerHeadersSent(callOptions'[1], xhr') ]_vars

C5_Witness ==
    /\ xhr.state = "sent"
    /\ authorization = Some("Basic abc")
    /\ callOptions[1].proxyAuthorization = Some("Basic opt")
    /\ "X-Custom" \in DOMAIN HeadersOf(callOptions[1])
    /\ "Proxy-Authorization" \in DOMAIN xhr.requestHeaders
    /\ xhr.requestHeaders["Proxy-Authorization"] = "Basic abc"

\* C6: the headers set on the XMLHttpRequest are the headers of the options
\* whose names are not User-Agent, Accept-Encoding or Content-Length, each with
\* its value; a header of the caller other than these (and other than the
\* Proxy-Authorization that xhrRequest sets itself) keeps the caller's value.
C6_UnsafeHeadersSkipped ==
    Sent =>
        /\ DOMAIN xhr.requestHeaders =
              DOMAIN HeadersOf(options[1]) \ { "User-Agent", "Accept-Encoding", "Content-Length" }
        /\ \A k \in DOMAIN xhr.requestHeaders : xhr.requestHeaders[k] = HeadersOf(options[1])[k]
        /\ \A k \in DOMAIN HeadersOf(callOptions[1]) :
              k \notin { "User-Agent", "Accept-Encoding", "Content-Length", "Proxy-Authorization" } =>
                  /\ k \in DOMAIN xhr.requestHeaders
                  /\ xhr.requestHeaders[k] = HeadersOf(callOptions[1])[k]

\* A request with User-Agent and X-Custom that the native attempt answered.
C6_Witness ==
    /\ pc = "settled"
    /\ DOMAIN HeadersOf(callOptions[1]) = { "User-Agent", "X-Custom" }
    /\ DOMAIN xhr.requestHeaders = { "X-Custom" }
    /\ xhr.requestHeaders["X-Custom"] = "caller X-Custom"
    /\ peerCalls = 0
    /\ outcome.state = "resolved"

\* C7: while preferenceService.ready is unresolved no request has been sent,
\* natively or to the privileged peer, and none has settled.
C7_NothingBeforeReady ==
    ready = "pending" => (~Sent /\ peerCalls = 0 /\ outcome.state = "pending")

\* The configuration a change event stands for: the fields whose preference
\* keys are in the event, each with the newValue of its key.
ExpectedConfiguration(e) ==
    LET c1 == IF "http.proxy" \in DOMAIN e
              THEN [k \in {"proxyUrl"} |-> e["http.proxy"].newValue] ELSE EmptyObject
        c2 == IF "http.proxyAuthorization" \in DOMAIN e
              THEN [k \in {"proxyAuthorization"} |-> e["http.proxyAuthorization"].newValue]
              ELSE EmptyObject
        c3 == IF "http.proxyStrictSSL" \in DOMAIN e
              THEN [k \in {"strictSSL"} |-> e["http.proxyStrictSSL"].newValue] ELSE EmptyObject
    IN  c1 @@ c2 @@ c3

\* C8: the handler of a change event with any of the keys http.proxy,
\* http.proxyAuthorization, http.proxyStrictSSL calls configure exactly once,
\* with exactly the fields of the keys present, each the newValue of its key.
C8_HandlerConfiguresChangedFields ==
    (lastEvent # None /\
     DOMAIN lastEvent[1] \cap { "http.proxy", "http.proxyAuthorization", "http.proxyStrictSSL" } # {}) =>
        configureLog = << ExpectedConfiguration(lastEvent[1]) >>

\* The text of the bodies the helpers are given.
TextOfBody(bytes) ==
    CASE bytes = << >> -> ""
      [] bytes = << 123, 34, 97, 34, 58, 49, 125 >> -> "{\"a\":1}"
      [] bytes = << 110, 111, 116, 32, 106, 115, 111, 110 >> -> "not json"
      [] bytes = << 104, 105 >> -> "hi"

\* The status is in [200,300) or is 1223.
SuccessStatus(st) == st # None /\ ((st[1] >= 200 /\ st[1] < 300) \/ st[1] = 1223)

\* The status as an error message names it.
StatusName(st) ==
    CASE st = None -> "undefined"
      [] st = Some(0) -> "0"
      [] st = Some(199) -> "199"
      [] st = Some(300) -> "300"
      [] st = Some(404) -> "404"
      [] OTHER -> "?"

\* C9: isSuccess returns the boolean true when the status is in [200,300) or
\* is 1223, and the boolean false otherwise, also for the status undefined or 0.
C9_IsSuccessIsBoolean ==
    op = "isSuccess" =>
        /\ result[1].type = "boolean"
        /\ result[1].boolean = SuccessStatus(ctx.res.statusCode)

C9_Witness ==
    /\ op = "isSuccess"
    /\ ctx.res.statusCode \in { None, Some(0) }
    /\ result[1] = JsBoolean(FALSE)

\* C10: asText and asJson throw an error naming the status whenever the status
\* is no success, whatever the buffer holds.  On a success asText returns ''
\* for the status 204 and the text of the buffer otherwise; asJson parses the
\* text of the buffer for every success status, 204 included, and throws the
\* parse error, with the text appended, when the text is no JSON.
C10_HelpersGateAndDecode ==
    LET st == ctx.res.statusCode
        text == TextOfBody(ctx.buffer.buffer)
    IN  /\ (op \in { "asText", "asJson" } /\ ~SuccessStatus(st)) =>
              /\ result[1].threw
              /\ result[1].message = "Server returned " \o StatusName(st)
        /\ (op = "asText" /\ SuccessStatus(st)) =>
              /\ ~result[1].threw
              /\ result[1].value = Some(IF st = Some(204) THEN "" ELSE text)
        /\ (op = "asJson" /\ SuccessStatus(st) /\ text = "{\"a\":1}") =>
              /\ ~result[1].threw
              /\ result[1].value = Some([ a |-> 1 ])
        /\ (op = "asJson" /\ SuccessStatus(st) /\ text # "{\"a\":1}") =>
              /\ result[1].threw
              /\ result[1].message =
                    (IF text = "" THEN "Unexpected end of JSON input"
                     ELSE "Unexpected token in JSON at position 0") \o ":\n" \o text

\* asJson on a 204 with an empty body fails.
C10_Witness ==
    /\ op = "asJson"
    /\ ctx.res.statusCode = Some(204)
    /\ ctx.buffer.buffer = << >>
    /\ result[1].threw

\* The entry a line of the model stands for: its name, trimmed and in lower
\* case, and its value, trimmed (<< >> for the empty line, which has none).
ExpectedEntry(text) ==
    CASE text = << "C", "o", "n", "t", "e", "n", "t", "-", "T", "y", "p", "e", ":", " ", "t", "e", "x", "t", "/", "p", "l", "a", "i", "n" >> -> << "content-type", "text/plain" >>
      [] text = << "X", "-", "F", "o", "o", ":", " ", "B", "a", "r" >> -> << "x-foo", "Bar" >>
      [] text = << " ", "X", "-", "F", "o", "o", " ", ":", " ", " ", "a", ":", "b", " " >> -> << "x-foo", "a:b" >>
      [] text = << "x", "-", "b", "a", "r", ":" >> -> << "x-bar", "" >>
      [] text = << >> -> << >>

\* The headers of the first n lines, a later line replacing an earlier one of its name.
RECURSIVE ExpectedHeaders(_, _)
ExpectedHeaders(lines, n) ==
    IF n = 0 THEN EmptyObject
    ELSE LET before == ExpectedHeaders(lines, n - 1)
             entry == ExpectedEntry(lines[n].text)
         IN  IF entry = << >> THEN before
             ELSE [k \in DOMAIN before \cup { entry[1] } |->
                      IF k = entry[1] THEN entry[2] ELSE before[k]]

\* "Content-Type: text/plain\r\nX-Foo: Bar\r\n", line by line.
ExampleLines ==
    << [ text |-> << "C", "o", "n", "t", "e", "n", "t", "-", "T", "y", "p", "e", ":", " ", "t", "e", "x", "t", "/", "p", "l", "a", "i", "n" >>, ending |-> << CR, LF >> ],
       [ text |-> << "X", "-", "F", "o", "o", ":", " ", "B", "a", "r" >>, ending |-> << CR, LF >> ] >>

\* C11 as stated: for the raw block "Content-Type: text/plain\r\nX-Foo: Bar\r\n"
\* the parsed headers are {'content-type': 'text/plain', 'x-foo': 'bar'}.
C11_ExampleValueLowerCased ==
    (headerLines = ExampleLines /\ responseHeaders # None) =>
        responseHeaders[1] = [k \in { "content-type", "x-foo" } |->
                                 IF k = "content-type" THEN "text/plain" ELSE "bar"]

\* C11, amended: for that raw block the parsed headers are
\* {'content-type': 'text/plain', 'x-foo': 'Bar'}; in general the block is split
\* at every CRLF, LF or CR, empty lines are skipped, each line is split at its
\* first colon, and its entry is the trimmed name in lower case with the
\* trimmed value, its case kept.
C11_ResponseHeadersParsed ==
    responseHeaders # None =>
        /\ responseHeaders[1] = ExpectedHeaders(headerLines, Len(headerLines))
        /\ headerLines = ExampleLines =>
              /\ RawHeaders(headerLines) = RawHeadersExample
              /\ responseHeaders[1] = [k \in { "content-type", "x-foo" } |->
                                       IF k = "content-type" THEN "text/plain" ELSE "Bar"]

C11_Witness ==
    /\ headerLines = ExampleLines
    /\ responseHeaders = Some([k \in { "content-type", "x-foo" } |->
                                 IF k = "content-type" THEN "text/plain" ELSE "Bar"])

\* C12: request never modifies the options object of its caller: when the
\* request has settled, natively, through the delegate or with a failure, the
\* options are what they were when request was called.
C12_OptionsUnmodified ==
    pc = "settled" => options = callOptions

\* C13: configure(config) sets the cached authorization to the
\* proxyAuthorization of config when config has that key (undefined clears it)
\* and leaves it as it was otherwise, and gives the config, unchanged, to the
\* privileged peer exactly once.
C13_ConfigureCachesAndForwards ==
    [][ configureArg' # None =>
          /\ authorization' =
                IF "proxyAuthorization" \in DOMAIN configureArg'[1]
                THEN configureArg'[1]["proxyAuthorization"] ELSE authorization
          /\ configureLog' = << configureArg'[1] >> ]_vars

\* A config without proxyAuthorization has left a cached value in place.
C13_Witness ==
    /\ configureArg # None
    /\ DOMAIN configureArg[1] = { "proxyUrl", "strictSSL" }
    /\ authorization = Some("Basic abc")
    /\ configureLog = << configureArg[1] >>

\* C17: after any calls of configure and any preference-change events, the
\* cached authorization is the proxyAuthorization given last to the privileged
\* peer, both undefined when none was given.
C17_CacheMatchesPeer ==
    authorization = peerAuthorization

\* A preference-change event has set both.
C17_Witness ==
    /\ lastEvent # None
    /\ ~handlerThrew
    /\ authorization = Some("Basic other")
    /\ peerAuthorization = Some("Basic other")

\* The state of a request in the spec's state machine.
Phase ==
    CASE pc = "idle" -> "Idle"
      [] pc = "awaitNative" -> "Attempting-Native"
      [] pc \in { "awaitReady", "awaitBackend" } -> "Falling-Back"
      [] pc = "settled" /\ outcome.state = "resolved" /\ peerCalls = 0 -> "Succeeded"
      [] pc = "settled" /\ outcome.state = "resolved" /\ peerCalls > 0 -> "Succeeded-Via-Delegate"
      [] pc = "settled" /\ outcome.state = "rejected" -> "Failed"
      [] OTHER -> "Unsettled"

TerminalPhases == { "Succeeded", "Succeeded-Via-Delegate", "Failed" }

PhaseTransitions ==
    { << "Attempting-Native", "Succeeded" >>, << "Attempting-Native", "Falling-Back" >>,
      << "Falling-Back", "Succeeded-Via-Delegate" >>, << "Falling-Back", "Failed" >> }

\* C14: a request goes from Attempting-Native to Succeeded or Falling-Back and
\* from Falling-Back to Succeeded-Via-Delegate or Failed, and in no other way;
\* once in a terminal state it stays there with the same outcome; it makes its
\* one native attempt when it is called and none later, and it calls the
\* privileged peer at most once.
C14_RequestStateMachine ==
    /\ [][ IF nRequests' = nRequests
           THEN /\ Phase' = Phase \/ << Phase, Phase' >> \in PhaseTransitions
                /\ Phase \in TerminalPhases => outcome' = outcome /\ peerCalls' = peerCalls
                /\ [ xhr' EXCEPT !.state = xhr.state ] = xhr
                /\ xhr'.state = "sent" => xhr.state = "sent"
           ELSE /\ Phase \in TerminalPhases \cup { "Idle" }
                /\ Phase' = "Attempting-Native"
                /\ xhr' # NoXhr ]_vars
    /\ [](peerCalls <= 1)
    /\ [](peerCalls = 1 => Phase \in { "Falling-Back", "Succeeded-Via-Delegate", "Failed" })

\* A request has failed after its one native attempt and one call of the peer.
C14_Witness ==
    /\ Phase = "Failed"
    /\ peerCalls = 1
    /\ xhr.state = "done"

\* C15: the cached authorization is read once, when request is called and the
\* native attempt begins: the attempt is sent with the value of that moment,
\* and no later step, a configure among them, changes the headers of the
\* attempt in flight.
C15_AuthorizationReadAtStart ==
    /\ [][ (SendsNative /\ TruthyStr(authorization)) =>
              /\ "Proxy-Authorization" \in DOMAIN xhr'.requestHeaders
              /\ xhr'.requestHeaders["Proxy-Authorization"] = authorization[1] ]_vars
    /\ [][ (nRequests' = nRequests /\ Sent) => xhr'.requestHeaders = xhr.requestHeaders ]_vars

\* A value was cached while an attempt sent without authorization was in flight.
C15_Witness ==
    /\ xhr.state = "sent"
    /\ authorization = Some("Basic abc")
    /\ "Proxy-Authorization" \notin DOMAIN xhr.requestHeaders

\* C16: the privileged peer is called with the options alone, and once request
\* is in the delegating path a cancellation of the token aborts nothing and
\* rejects nothing: request settles with the answer of the peer.
C16_FallbackIgnoresCancellation ==
    /\ [][ (pc \in { "awaitReady", "awaitBackend" } /\ cancelled' # cancelled) =>
              /\ pc' = pc
              /\ outcome' = outcome
              /\ xhr' = xhr
              /\ nativePromise' = nativePromise
              /\ peerCalls' = peerCalls
              /\ peerOptions' = peerOptions
              /\ peerReply' = peerReply ]_vars
    /\ []((pc = "settled" /\ peerCalls = 1) => (outcome.state # "pending" /\ OutcomeIsDelegates))
    /\ [](peerCalls = 1 => peerOptions = options)

\* A request cancelled after its native attempt had loaded has settled with
\* the answer of the peer.
C16_Witness ==
    /\ cancelled
    /\ xhr.state = "done"
    /\ nativePromise.state = "resolved"
    /\ pc = "settled"
    /\ peerCalls = 1
    /\ outcome.state = "resolved"

\* C18: request rejects only out of the delegating path: a rejection appears
\* only while request awaits readiness or the peer, after a native attempt
\* that falls back, and its reason is that of readiness or of the peer, never
\* that of the native error, timeout or cancellation.
C18_RejectionsFromDelegate ==
    /\ [][ (outcome'.state = "rejected" /\ outcome.state # "rejected") =>
              /\ pc \in { "awaitReady", "awaitBackend" }
              /\ FallsBack(nativePromise) ]_vars
    /\ [](outcome.state = "rejected" =>
              \/ ready = "rejected" /\ peerCalls = 0 /\ outcome = Rejected(ReadyError)
              \/ peerCalls = 1 /\ peerReply.state = "rejected" /\ outcome = peerReply)

\* The native attempt failed with an error and request rejected with the
\* reason of the peer.
C18_Witness ==
    /\ nativePromise.state = "rejected"
    /\ xhr.state = "done"
    /\ pc = "settled"
    /\ outcome = Rejected(Some("peer failed"))

\* C19: the promise of the native attempt settles once, with the first of
\* load, error, timeout and cancellation: no later event changes it, and a
\* cancellation after request has settled changes neither the result, nor the
\* state of request, nor the number of calls of the peer.
C19_NativeSettlesOnce ==
    /\ [][ (nativePromise.state # "pending" /\ nRequests' = nRequests) =>
              nativePromise' = nativePromise ]_vars
    /\ [][ (pc = "settled" /\ nRequests' = nRequests) =>
              /\ pc' = "settled"
              /\ outcome' = outcome
              /\ peerCalls' = peerCalls ]_vars
    /\ [][ (xhr.state \in { "done", "aborted" } /\ nRequests' = nRequests) => xhr' = xhr ]_vars

\* The token was cancelled after the native result had been returned.
C19_Witness ==
    /\ cancelled
    /\ xhr.state = "done"
    /\ nativePromise.state = "resolved"
    /\ pc = "settled"
    /\ peerCalls = 0
    /\ outcome = Resolved(nativePromise.value[1])

\* C20 as stated: when readiness resolves and the privileged peer answers,
\* every request that has been called eventually settles, a request without
\* timeout and without cancellation among them.
C20_EveryRequestSettles ==
    <>(ready = "resolved") => ((pc = "awaitNative") ~> (pc = "settled"))

\* The native attempt stays in flight for ever: it has no timeout and its
\* token is not cancelled.
NativeHangs == [](xhr.state = "sent" /\ xhr.timeout = 0 /\ ~cancelled)

\* C20: every request that has been called eventually settles, unless its
\* native attempt was sent without timeout, is never cancelled, and never
\* loads or fails.
C20_SettlesUnlessNativeHangs ==
    (pc = "awaitNative") ~> (pc = "settled" \/ NativeHangs)

\* A request without timeout and without cancellation has settled.
C20_Witness ==
    /\ pc = "settled"
    /\ callOptions[1].timeout = None
    /\ xhr.state = "done"
    /\ ~cancelled
    /\ outcome.state # "pending"

===========================================================================
